---------------------------- MODULE Spec2Model ----------------------------
(***************************************************************************)
(* A model of the apg/adbc core: the identifier check and the predicate    *)
(* compiler of adbc/sql.py, primary-key resolution (adbc/sql.py and        *)
(* adbc/table.py), the memoized Table.count of adbc/table.py and the       *)
(* fan-out/fold protocol of apg/store.py.                                  *)
(*                                                                         *)
(* Python strings are sequences of one-character strings wherever the code *)
(* looks at their characters (identifiers, LIKE values); dictionary keys   *)
(* and operator names, which the code only looks up, are TLA+ strings.     *)
(***************************************************************************)
EXTENDS Integers, Sequences, FiniteSets, TLC

VARIABLES
    ident,      \* the argument of check_identifier
    identOut,   \* its outcome
    where,      \* the filter document given to where_clause
    args0,      \* the caller's pre-seeded args list
    out,        \* the outcome of where_clause: error, fragment, args afterwards
    meta,       \* table metadata: attributes, constraints, indexes as given
    table,      \* the Table constructed from it
    pksOut,     \* what get_pks returns for it
    children,   \* a composite node's children, in the order get_children gives
    call,       \* the method called on the node
    sig,        \* the frame of Store.get_signature
    method,     \* the WithChildren method running, or "none"
    npc,        \* where that method stands
    s,          \* its list s: the children whose coroutine was created
    status,     \* per child, the state of that coroutine
    k,          \* the entry of s being awaited
    got,        \* what the list comprehension has built
    result,     \* what the method returned or raised
    rowCount,   \* the row count the database holds
    cache,      \* the "count" entry of the Table's __dict__: 0 or a future
    nfut,       \* futures created so far
    coro,       \* per future, the get_count coroutine object it resolves to
    cpc,        \* per caller, where its access to table.count stands
    holds,      \* per caller, the awaitable table.count evaluated to
    access,     \* per caller, what "await table.count" gave
    final,      \* per caller, what awaiting that value gave
    queries     \* executions of the row-count query

identVars == <<ident, identOut>>
whereVars == <<where, args0, out>>
pksVars == <<meta, table, pksOut>>
treeVars == <<children, call, sig, method, npc, s, status, k, got, result>>
countVars == <<rowCount, cache, nfut, coro, cpc, holds, access, final, queries>>
vars == <<identVars, whereVars, pksVars, treeVars, countVars>>

---------------------------------------------------------------------------
(* Bounds of the model                                                     *)

MaxIdentLen == 3     \* longest string given to check_identifier
MaxStrLen == 2       \* longest LIKE value
MaxSeed == 2         \* longest pre-seeded args list
MaxListLen == 2      \* longest list bound by one operator
MaxDepth == 2        \* deepest nesting of combinators
MaxMeta == 2         \* most indexes, and most constraints, of a table
MaxChildren == 3     \* most children of a composite node
MaxCallers == 3      \* accesses to one Table's count
MaxRows == 2         \* largest row count

---------------------------------------------------------------------------
(* Generic helpers                                                         *)

RECURSIVE Concat(_)
Concat(seqs) ==
    IF seqs = <<>> THEN <<>> ELSE Head(seqs) \o Concat(Tail(seqs))

\* Body applied to the value of an expression, the value computed once
Bind(value, Body(_)) == CHOOSE y \in {Body(x) : x \in {value}} : TRUE

\* All sequences over S of length 0..n
SeqsUpTo(S, n) == UNION {[1..m -> S] : m \in 0..n}

\* sep.join(parts) over sequences of pieces
RECURSIVE Join(_, _)
Join(sep, parts) ==
    IF parts = <<>> THEN <<>>
    ELSE IF Len(parts) = 1 THEN parts[1]
    ELSE parts[1] \o sep \o Join(sep, Tail(parts))

---------------------------------------------------------------------------
(* sql.py: identifiers                                                     *)

Letters ==
    {"a","b","c","d","e","f","g","h","i","j","k","l","m",
     "n","o","p","q","r","s","t","u","v","w","x","y","z",
     "A","B","C","D","E","F","G","H","I","J","K","L","M",
     "N","O","P","Q","R","S","T","U","V","W","X","Y","Z"}

Digits == {"0","1","2","3","4","5","6","7","8","9"}

\* the class [-_a-zA-Z0-9$]
IdentBody == Letters \cup Digits \cup {"-", "_", "$"}

\* IDENTIFIER_REGEX.match(s) for "^[a-zA-Z][-_a-zA-Z0-9$]*$".  Without
\* re.MULTILINE, Python's "$" matches at the end of the string and also just
\* before a newline that is the last character of the string.
IDENTIFIER_REGEX(text) ==
    \E n \in {Len(text)} \cup (IF Len(text) > 0 /\ text[Len(text)] = "\n"
                            THEN {Len(text) - 1} ELSE {}) :
        /\ n >= 1
        /\ text[1] \in Letters
        /\ \A i \in 2..n : text[i] \in IdentBody

\* check_identifier: raise on no match, else return the argument itself
check_identifier(text) ==
    IF ~IDENTIFIER_REGEX(text)
    THEN [raised |-> TRUE, value |-> <<>>]
    ELSE [raised |-> FALSE, value |-> text]

---------------------------------------------------------------------------
(* Python values.  One record shape for every kind, so that any two values *)
(* can be compared: k is the kind, and only the field of that kind is set. *)

PyNone ==
    [k |-> "none", i |-> 0, s |-> <<>>, b |-> FALSE, items |-> <<>>, kvs |-> <<>>]
PyInt(n) ==
    [k |-> "int", i |-> n, s |-> <<>>, b |-> FALSE, items |-> <<>>, kvs |-> <<>>]
PyStr(cs) ==
    [k |-> "str", i |-> 0, s |-> cs, b |-> FALSE, items |-> <<>>, kvs |-> <<>>]
PyBool(v) ==
    [k |-> "bool", i |-> 0, s |-> <<>>, b |-> v, items |-> <<>>, kvs |-> <<>>]
PyList(xs) ==
    [k |-> "list", i |-> 0, s |-> <<>>, b |-> FALSE, items |-> xs, kvs |-> <<>>]
\* an insertion-ordered dict: a sequence of <<key, value>> pairs, keys distinct
PyDict(pairs) ==
    [k |-> "dict", i |-> 0, s |-> <<>>, b |-> FALSE, items |-> <<>>, kvs |-> pairs]

\* bool(v)
Truthy(v) ==
    CASE v.k = "none" -> FALSE
      [] v.k = "int" -> v.i # 0
      [] v.k = "str" -> v.s # <<>>
      [] v.k = "bool" -> v.b
      [] v.k = "list" -> v.items # <<>>
      [] OTHER -> v.kvs # <<>>

\* d.get(key): the value under key, or None
Get(d, key) ==
    IF \E j \in 1..Len(d.kvs) : d.kvs[j][1] = key
    THEN d.kvs[CHOOSE j \in 1..Len(d.kvs) : d.kvs[j][1] = key][2]
    ELSE PyNone

---------------------------------------------------------------------------
(* SQL text is a sequence of tokens: literal text, an interpolated field   *)
(* name, or a positional placeholder $n.  Whitespace is not modelled.      *)

Txt(x) == [t |-> "txt", x |-> x, n |-> 0]
FieldTok(x) == [t |-> "field", x |-> x, n |-> 0]
Ph(n) == [t |-> "ph", x |-> "$", n |-> n]

parens(value) == <<Txt("(")>> \o value \o <<Txt(")")>>

\* A template is a sequence of elements: a {{ variable }} or literal pieces.
TVar(name) == [var |-> name, lit |-> <<>>]
TLit(piece) == [var |-> "", lit |-> <<piece>>]

\* adbc.template.resolve_template: every {{ name }} replaced by context[name]
resolve_template(template, context) ==
    Concat([j \in 1..Len(template) |->
              IF template[j].var # "" THEN context[template[j].var]
              ELSE template[j].lit])

\* adbc.template.get_context_variables: the names a template refers to
get_context_variables(template) ==
    {template[j].var : j \in 1..Len(template)} \ {""}

\* '"{{ field }}" <sym> {{ value }}'
ValueTemplate(sym) ==
    <<TLit(Txt("\"")), TVar("field"), TLit(Txt("\"")), TLit(Txt(sym)), TVar("value")>>

\* '"{{ field }}" IS {{ not }}NULL'
NullTemplate ==
    <<TLit(Txt("\"")), TVar("field"), TLit(Txt("\"")), TLit(Txt("IS")),
      TVar("not"), TLit(Txt("NULL"))>>

\* the OPERATORS literal
OPERATORS_literal ==
    ("equal" :> ValueTemplate("=")) @@
    ("less" :> ValueTemplate("<")) @@
    ("at.most" :> ValueTemplate("<=")) @@
    ("greater" :> ValueTemplate(">")) @@
    ("at.least" :> ValueTemplate(">=")) @@
    ("like" :> ValueTemplate("LIKE")) @@
    ("ilike" :> ValueTemplate("ILIKE")) @@
    ("not.equal" :> ValueTemplate("!=")) @@
    ("is.null" :> NullTemplate) @@
    ("starts.with" :> ValueTemplate("LIKE")) @@
    ("istarts.with" :> ValueTemplate("ILIKE")) @@
    ("iends.with" :> ValueTemplate("ILIKE")) @@
    ("contains" :> ValueTemplate("LIKE")) @@
    ("icontains" :> ValueTemplate("ILIKE")) @@
    ("in" :> ValueTemplate("IN"))

\* OPERATORS after the alias assignments
OPERATORS ==
    OPERATORS_literal @@
    [o \in {"ne", "!=", "<>"} |-> OPERATORS_literal["not.equal"]] @@
    [o \in {"eq", "equals", "="} |-> OPERATORS_literal["equal"]] @@
    [o \in {"less.than", "<"} |-> OPERATORS_literal["less"]] @@
    [o \in {"greater.than", ">"} |-> OPERATORS_literal["greater"]] @@
    [o \in {"greater.equal", ">="} |-> OPERATORS_literal["at.least"]] @@
    [o \in {"less.equal", "<="} |-> OPERATORS_literal["at.most"]] @@
    ("~" :> OPERATORS_literal["like"]) @@
    ("~~" :> OPERATORS_literal["ilike"])

OPERATOR_TRANSLATE ==
    ("starts.with" :> <<TVar("value"), TLit("%")>>) @@
    ("istarts.with" :> <<TVar("value"), TLit("%")>>) @@
    ("ends.with" :> <<TLit("%"), TVar("value")>>) @@
    ("iends.with" :> <<TLit("%"), TVar("value")>>) @@
    ("contains" :> <<TLit("%"), TVar("value"), TLit("%")>>) @@
    ("icontains" :> <<TLit("%"), TVar("value"), TLit("%")>>)

\* "LIKE" in template.upper(): of the literal texts only LIKE and ILIKE hold it
HasLike(template) ==
    \E j \in 1..Len(template) :
        template[j].var = "" /\ template[j].lit[1].x \in {"LIKE", "ILIKE"}

\* str.replace(old, new) for a one-character old
Replace(cs, old, new) ==
    Concat([j \in 1..Len(cs) |-> IF cs[j] = old THEN new ELSE <<cs[j]>>])

\* escape_like with the backslash escaped last: the backslashes that escape
\* % and _ are then escaped themselves
escape_like_BackslashLast(like) ==
    IF like.k # "str" THEN [err |-> "AttributeError", value |-> like]
    ELSE [err |-> "",
          value |-> PyStr(Replace(Replace(Replace(like.s,
                                                "%", <<"\\", "%">>),
                                        "_", <<"\\", "_">>),
                                "\\", <<"\\", "\\">>))]

\* escape_like: three replace calls, the backslash first.  A value that is
\* no string has no replace method.
escape_like(like) ==
    IF like.k # "str" THEN [err |-> "AttributeError", value |-> like]
    ELSE [err |-> "",
          value |-> PyStr(Replace(Replace(Replace(like.s,
                                                "\\", <<"\\", "\\">>),
                                        "%", <<"\\", "%">>),
                                "_", <<"\\", "_">>))]

\* params_list numbering from start + 1
params_list_OffByOne(start, num) == [j \in 1..num |-> Ph(start + j)]

\* params_list: $start, $start+1, ... (range(num) counts from 0)
params_list(start, num) == [j \in 1..num |-> Ph(start + (j - 1))]

---------------------------------------------------------------------------
(* sql.py: where_clause.  Every step gives a record with err ("" when the  *)
(* step returned, else the exception raised) and args, the shared list as  *)
(* the step leaves it.                                                     *)

\* "replace value with parameters": a list is spread over new placeholders,
\* anything else is appended and takes the placeholder $len(args)
BindValue(value, args) ==
    IF value.k = "list"
    THEN LET params == params_list(Len(args) + 1, Len(value.items))
         IN [args |-> args \o value.items,
             text |-> parens(Join(<<Txt(",")>>,
                                  [j \in 1..Len(params) |-> <<params[j]>>]))]
    ELSE LET grown == Append(args, value)
         IN [args |-> grown, text |-> <<Ph(Len(grown))>>]

\* the body of "for operator, value in operator_value.items()"
OperatorClause(operator, value, context, args) ==
    IF operator \notin DOMAIN OPERATORS
    THEN [err |-> "ValueError", clause |-> <<>>, context |-> context, args |-> args]
    ELSE
      LET template == OPERATORS[operator]
          like == HasLike(template)
          needs == get_context_variables(template)
          escaped == IF like THEN escape_like(value)
                     ELSE [err |-> "", value |-> value]
      IN IF escaped.err # ""
         THEN [err |-> escaped.err, clause |-> <<>>, context |-> context,
               args |-> args]
         ELSE
           LET translated ==
                   IF operator \in DOMAIN OPERATOR_TRANSLATE
                   THEN PyStr(resolve_template(OPERATOR_TRANSLATE[operator],
                                  [v \in {"value"} |-> escaped.value.s]))
                   ELSE escaped.value
               ctxNot ==
                   IF "not" \in needs
                   THEN [context EXCEPT !["not"] =
                            IF Truthy(translated) THEN <<>> ELSE <<Txt("NOT")>>]
                   ELSE context
               \* context['value'] holds the raw value until it is bound; a
               \* template without {{ value }} never renders it
               bound == IF "value" \in needs THEN BindValue(translated, args)
                        ELSE [args |-> args, text |-> <<>>]
               ctx == [ctxNot EXCEPT !["value"] = bound.text]
           IN [err |-> "", clause |-> resolve_template(template, ctx),
               context |-> ctx, args |-> bound.args]

\* the loop over one field's operators; clause is the list of their clauses
RECURSIVE OperatorLoop(_, _, _)
OperatorLoop(ops, context, args) ==
    IF ops = <<>> THEN [err |-> "", clause |-> <<>>, args |-> args]
    ELSE Bind(OperatorClause(ops[1][1], ops[1][2], context, args),
              LAMBDA r :
                IF r.err # "" THEN [err |-> r.err, clause |-> <<>>, args |-> r.args]
                ELSE Bind(OperatorLoop(Tail(ops), r.context, r.args),
                          LAMBDA rest :
                            [err |-> rest.err,
                             clause |-> IF rest.err # "" THEN <<>>
                                        ELSE <<r.clause>> \o rest.clause,
                             args |-> rest.args]))

\* the body of "for field, operator_value in where.items()"
FieldClause(field, operator_value, args) ==
    LET context == [v \in {"field", "value", "not"} |->
                       IF v = "field" THEN <<FieldTok(field)>> ELSE <<>>]
    IN IF operator_value.k = "dict" /\ operator_value.kvs = <<>>
       THEN [err |-> "AssertionError", frag |-> <<>>, args |-> args]
       ELSE
         Bind(OperatorLoop(IF operator_value.k = "dict" THEN operator_value.kvs
                           ELSE <<<<"equals", operator_value>>>>,
                           context, args),
              LAMBDA r :
                IF r.err # "" THEN [err |-> r.err, frag |-> <<>>, args |-> r.args]
                ELSE [err |-> "",
                      frag |-> IF Len(r.clause) > 1
                               THEN Join(<<Txt("AND")>>,
                                         [j \in 1..Len(r.clause) |-> parens(r.clause[j])])
                               ELSE r.clause[1],
                      args |-> r.args])

\* the loop over the fields; clauses is the list built
RECURSIVE FieldLoop(_, _)
FieldLoop(pairs, args) ==
    IF pairs = <<>> THEN [err |-> "", clauses |-> <<>>, args |-> args]
    ELSE Bind(FieldClause(pairs[1][1], pairs[1][2], args),
              LAMBDA r :
                IF r.err # "" THEN [err |-> r.err, clauses |-> <<>>, args |-> r.args]
                ELSE Bind(FieldLoop(Tail(pairs), r.args),
                          LAMBDA rest :
                            [err |-> rest.err,
                             clauses |-> IF rest.err # "" THEN <<>>
                                         ELSE <<r.frag>> \o rest.clauses,
                             args |-> rest.args]))

RECURSIVE where_clause(_, _)
RECURSIVE CompileEach(_, _)

\* [parens(where_clause(a, args)) for a in docs], left to right on one args
CompileEach(docs, args) ==
    IF docs = <<>> THEN [err |-> "", frags |-> <<>>, args |-> args]
    ELSE Bind(where_clause(docs[1], args),
              LAMBDA r :
                IF r.err # "" THEN [err |-> r.err, frags |-> <<>>, args |-> r.args]
                ELSE Bind(CompileEach(Tail(docs), r.args),
                          LAMBDA rest :
                            [err |-> rest.err,
                             frags |-> IF rest.err # "" THEN <<>>
                                       ELSE <<parens(r.frag)>> \o rest.frags,
                             args |-> rest.args]))

where_clause(doc, args) ==
    LET ands == Get(doc, ".and")
        ors == Get(doc, ".or")
        nots == Get(doc, ".not")
    IN IF Truthy(ands)
       THEN Bind(CompileEach(ands.items, args),
                 LAMBDA r : [err |-> r.err, frag |-> Join(<<Txt("AND")>>, r.frags),
                             args |-> r.args])
       ELSE IF Truthy(ors)
       THEN Bind(CompileEach(ors.items, args),
                 LAMBDA r : [err |-> r.err, frag |-> Join(<<Txt("OR")>>, r.frags),
                             args |-> r.args])
       ELSE IF Truthy(nots)
       THEN Bind(where_clause(nots, args),
                 LAMBDA r : [err |-> r.err,
                             frag |-> IF r.err # "" THEN <<>>
                                      ELSE <<Txt("NOT")>> \o parens(r.frag),
                             args |-> r.args])
       ELSE Bind(FieldLoop(doc.kvs, args),
                 LAMBDA r : [err |-> r.err,
                             frag |-> IF Len(r.clauses) > 1
                                      THEN Join(<<Txt("AND")>>,
                                                [j \in 1..Len(r.clauses) |->
                                                    parens(r.clauses[j])])
                                      ELSE IF Len(r.clauses) = 1 THEN r.clauses[1]
                                      ELSE <<>>,
                             args |-> r.args])

---------------------------------------------------------------------------
(* Primary-key resolution: sql.py get_pks and table.py Table.__init__      *)

\* An optional value: Python's None, or a value
NoneV == [some |-> FALSE, v |-> <<>>]
Some(x) == [some |-> TRUE, v |-> x]
\* "not x" for None or a list
Falsy(x) == ~x.some \/ x.v = <<>>

\* adbc.utils.get_first: the `then` entry of the first item that passes the
\* test (a function over the items), or None
get_first(items, test, then) ==
    IF \E j \in 1..Len(items) : test[items[j]]
    THEN LET j == CHOOSE j \in 1..Len(items) :
                    test[items[j]] /\ \A h \in 1..(j - 1) : ~test[items[h]]
         IN Some(items[j][then])
    ELSE NoneV

IsPrimaryIndex(item) == item.primary
IsPrimaryConstraint(item) == item.type = "p"
ItemsOf(items) == {items[j] : j \in 1..Len(items)}

get_pks(indexes, constraints, columns) ==
    LET fromIndexes ==
            IF indexes # <<>>
            THEN get_first(indexes,
                           [item \in ItemsOf(indexes) |-> IsPrimaryIndex(item)],
                           "columns")
            ELSE NoneV
        fromConstraints ==
            IF Falsy(fromIndexes) /\ constraints # <<>>
            THEN get_first(constraints,
                           [item \in ItemsOf(constraints) |-> IsPrimaryConstraint(item)],
                           "columns")
            ELSE fromIndexes
    IN IF Falsy(fromConstraints) THEN Some(columns) ELSE fromConstraints

\* get_by_name: the `key` entry of the first item of that name, or None
get_by_name(l, name, key) ==
    IF \E j \in 1..Len(l) : l[j].name = name
    THEN LET j == CHOOSE j \in 1..Len(l) :
                    l[j].name = name /\ \A h \in 1..(j - 1) : l[h].name # name
         IN Some(l[j][key])
    ELSE NoneV

\* the names the metadata uses, in Python's string order
NameOrder ==
    <<"a", "b", "c1", "c2", "c3", "c4", "i1", "i2", "i3", "id", "t1", "t2", "t3", "t4">>
Rank(name) == CHOOSE j \in 1..Len(NameOrder) : NameOrder[j] = name

\* sorted(items, key=lambda c: c["name"]): a stable insertion sort
RECURSIVE SortedByName(_)
SortedByName(items) ==
    IF items = <<>> THEN <<>>
    ELSE LET rest == SortedByName(SubSeq(items, 1, Len(items) - 1))
             x == items[Len(items)]
             before == SelectSeq(rest, LAMBDA y : Rank(y.name) <= Rank(x.name))
             after == SelectSeq(rest, LAMBDA y : Rank(y.name) > Rank(x.name))
         IN before \o <<x>> \o after

\* Table.__init__: the sorted metadata and the resolved pks.  pks is the keys
\* of the index named by the first type-"p" constraint, or None.
TableInit(attributes, constraints, indexes) ==
    LET sortedAttributes == SortedByName(attributes)
        sortedConstraints == SortedByName(constraints)
        sortedIndexes == SortedByName(indexes)
        primary == SelectSeq(sortedConstraints, IsPrimaryConstraint)
    IN [attributes |-> sortedAttributes,
        constraints |-> sortedConstraints,
        indexes |-> sortedIndexes,
        pks |-> IF primary = <<>> THEN NoneV
                ELSE get_by_name(sortedIndexes, primary[1].index_name, "keys")]

---------------------------------------------------------------------------
(* store.py: the values the folds of WithChildren compute                  *)

\* a str or bytes value; text is its sequence of segments
PyText(segs) == [type |-> "str", text |-> segs]
PyBytes(segs) == [type |-> "bytes", text |-> segs]

\* str.format with positional fields: each "{}" segment of the format string
\* takes the next argument, every other segment stays as it is
RECURSIVE FormatSegments(_, _)
FormatSegments(segs, fargs) ==
    IF segs = <<>> THEN <<>>
    ELSE IF Head(segs) = "{}"
    THEN <<Head(fargs)>> \o FormatSegments(Tail(segs), Tail(fargs))
    ELSE <<Head(segs)>> \o FormatSegments(Tail(segs), fargs)

Format(fmt, fargs) == PyText(FormatSegments(fmt.text, fargs))

\* hashlib.md5(data): only bytes-like data is hashed; a str raises TypeError
\* ("Strings must be encoded before hashing")
md5(data) ==
    IF data.type = "str" THEN [err |-> "TypeError", digest |-> <<>>]
    ELSE [err |-> "", digest |-> <<"md5">> \o data.text]

\* '"-".format(await ss[0], ss[1])' for one (hash, name) pair
FoldPiece(hash, name) == Format(PyText(<<"-">>), <<hash, name>>)

\* md5(",".join([...])) over the pieces of the pairs, in the order of s
WithChildrenFold(pairs) ==
    md5(PyText(Join(<<",">>,
                    [j \in 1..Len(pairs) |-> FoldPiece(pairs[j][1], pairs[j][2]).text])))

\* sum([await c for c in s])
RECURSIVE Sum(_)
Sum(ns) == IF ns = <<>> THEN 0 ELSE Head(ns) + Sum(Tail(ns))

\* what a child's operation returns when awaited
ChildValue(child, m) ==
    CASE m = "count" -> child.count
      [] m = "data" -> child.data
      [] m = "schema" -> child.schema

\* the (hash, name) pairs of a hash method over the children, in their order
HashPairs(kids, m) == [j \in 1..Len(kids) |-> <<ChildValue(kids[j], m), kids[j].name>>]

\* the order in which Store.get_signature awaits its three coroutines
SignatureParts == <<"data", "schema", "count">>

---------------------------------------------------------------------------
(* Inputs                                                                  *)

\* characters given to check_identifier: letters, a digit, the three other
\* characters of the class, whitespace and SQL metacharacters
InputChars == {"a", "Z", "1", "-", "_", "$", " ", "\n", "'", ";", ".", "("}
Idents == SeqsUpTo(InputChars, MaxIdentLen)

LikeChars == {"x", "%", "_", "\\"}
LikeStrings == SeqsUpTo(LikeChars, MaxStrLen)

\* pre-seeded args: values no document holds
Seeds == {[j \in 1..n |-> PyInt(90 + j)] : n \in 0..MaxSeed}

IntLists == {PyList(l) : l \in SeqsUpTo({PyInt(1), PyInt(2)}, MaxListLen)}

OperatorNames == DOMAIN OPERATORS \cup {"ends.with", "bogus"}

\* {"a": {op: "<string>"}} for every operator name, and {"a": "<string>"}
StrDocs ==
    {PyDict(<<<<"a", PyDict(<<<<op, PyStr(cs)>>>>)>>>>) :
        op \in OperatorNames, cs \in LikeStrings}
    \cup {PyDict(<<<<"a", PyStr(cs)>>>>) : cs \in LikeStrings}

TwoOps ==
    {PyDict(<<<<"at.least", PyInt(1)>>, <<"is.null", PyBool(FALSE)>>>>),
     PyDict(<<<<"in", PyList(<<PyInt(1), PyInt(2)>>)>>, <<"less", PyInt(2)>>>>),
     PyDict(<<<<"is.null", PyBool(TRUE)>>, <<"in", PyList(<<PyInt(2)>>)>>,
              <<"ne", PyInt(1)>>>>)}

OpVals ==
    {PyInt(1), PyDict(<<>>)} \cup IntLists \cup TwoOps
    \cup {PyDict(<<<<op, v>>>>) :
            op \in {"greater", "in", "is.null", "like", "bogus"},
            v \in {PyInt(1), PyBool(FALSE), PyBool(TRUE)} \cup IntLists}

PairVals ==
    {PyInt(1), PyList(<<PyInt(1), PyInt(2)>>),
     PyDict(<<<<"is.null", PyBool(FALSE)>>>>),
     PyDict(<<<<"in", PyList(<<PyInt(2), PyInt(1)>>)>>>>),
     PyDict(<<<<"at.least", PyInt(1)>>, <<"is.null", PyBool(FALSE)>>>>)}

\* field keys: two identifiers and two strings the grammar rejects
GoodFields == {"a", "b"}
BadFields == {"a b", "b';"}

OneFieldDocs ==
    {PyDict(<<<<f, v>>>>) : f \in GoodFields \cup BadFields, v \in OpVals}

TwoFieldDocs ==
    {PyDict(<<<<f, v>>, <<g, w>>>>) :
        f \in {"a", "a b"}, g \in {"b", "b';"}, v \in PairVals, w \in PairVals}
    \cup {PyDict(<<<<"b", v>>, <<"a", w>>>>) : v \in PairVals, w \in PairVals}

\* the documents nested under combinators
NestBase ==
    {PyDict(<<<<"a", PyInt(1)>>>>),
     PyDict(<<<<"a", PyDict(<<<<"in", PyList(<<PyInt(2), PyInt(3)>>)>>>>)>>,
              <<"b", PyDict(<<<<"is.null", PyBool(FALSE)>>>>)>>>>),
     PyDict(<<<<"a", PyDict(<<<<"greater", PyInt(4)>>, <<"is.null", PyBool(TRUE)>>>>)>>,
              <<"b", PyList(<<PyInt(5)>>)>>>>)}

RECURSIVE Nested(_)
Nested(depth) ==
    IF depth = 0 THEN NestBase
    ELSE LET P == Nested(depth - 1)
             lists == {<<x>> : x \in P}
                      \cup {<<x, y>> : x \in P, y \in NestBase}
                      \cup {<<y, x>> : x \in P, y \in NestBase}
         IN P \cup {PyDict(<<<<c, PyList(l)>>>>) : c \in {".and", ".or"}, l \in lists}
              \cup {PyDict(<<<<".not", x>>>>) : x \in P}

\* a combinator key with a sibling key, in either order
CombinatorEntries ==
    {<<".and", PyList(<<x>>)>> : x \in NestBase}
    \cup {<<".or", PyList(<<x>>)>> : x \in NestBase}
    \cup {<<".not", x>> : x \in NestBase}

MixedDocs ==
    {PyDict(<<e, <<"c", PyInt(6)>>>>) : e \in CombinatorEntries}
    \cup {PyDict(<<<<"c", PyInt(6)>>, e>>) : e \in CombinatorEntries}
    \cup {PyDict(<<e[1], e[2]>>) :
            e \in {p \in CombinatorEntries \X CombinatorEntries : p[1][1] # p[2][1]}}

Docs == StrDocs \cup OneFieldDocs \cup TwoFieldDocs \cup Nested(MaxDepth) \cup MixedDocs

\* table metadata.  An index lists the same columns under keys and columns.
IndexPool ==
    {[name |-> "i1", primary |-> TRUE, keys |-> <<"id">>, columns |-> <<"id">>],
     [name |-> "i2", primary |-> FALSE, keys |-> <<"b">>, columns |-> <<"b">>],
     [name |-> "i3", primary |-> TRUE, keys |-> <<"a", "b">>, columns |-> <<"a", "b">>]}

ConstraintPool ==
    {[name |-> "c1", type |-> "p", columns |-> <<"id">>, index_name |-> "i1"],
     [name |-> "c2", type |-> "u", columns |-> <<"b">>, index_name |-> "i2"],
     [name |-> "c3", type |-> "p", columns |-> <<"a", "b">>, index_name |-> "i3"],
     [name |-> "c4", type |-> "f", columns |-> <<"a">>, index_name |-> ""]}

\* sequences over S without repetition, of length 0..n
DistinctSeqs(S, n) ==
    {q \in SeqsUpTo(S, n) : \A x, y \in 1..Len(q) : x # y => q[x] # q[y]}

AttributeLists ==
    {<<[name |-> "a"], [name |-> "b"]>>,
     <<[name |-> "b"], [name |-> "a"]>>,
     <<[name |-> "id"], [name |-> "b"], [name |-> "a"]>>}

Metas ==
    [attributes : AttributeLists,
     constraints : DistinctSeqs(ConstraintPool, MaxMeta),
     indexes : DistinctSeqs(IndexPool, MaxMeta)]

\* children of a composite node: distinct names, in any order
ChildNames == {"t1", "t2", "t3", "t4"}
ChildPool == [name : ChildNames, data : {"d1", "d2"}, schema : {"s1"}, count : {1, 2}]
ChildLists ==
    {q \in SeqsUpTo(ChildPool, MaxChildren) :
        /\ \A x, y \in 1..Len(q) : x # y => q[x].name # q[y].name
        /\ \A x \in 1..Len(q) : Rank(q[x].name) <= Rank("t1") + Len(q)}

---------------------------------------------------------------------------
(* Each specification runs one part of the program; the variables of the   *)
(* other parts stay as they are.                                           *)

IdentIdle ==
    /\ ident = <<>>
    /\ identOut = [done |-> FALSE, raised |-> FALSE, value |-> <<>>]

WhereIdle ==
    /\ where = PyNone
    /\ args0 = <<>>
    /\ out = [err |-> "pending", frag |-> <<>>, args |-> <<>>]

NoTable == [done |-> FALSE, attributes |-> <<>>, constraints |-> <<>>,
            indexes |-> <<>>, pks |-> NoneV]

PksIdle ==
    /\ meta = [attributes |-> <<>>, constraints |-> <<>>, indexes |-> <<>>]
    /\ table = NoTable
    /\ pksOut = [done |-> FALSE, pks |-> NoneV]

NoSig == [pc |-> "none", k |-> 0, parts |-> [p \in {"data", "schema", "count"} |-> "none"],
          values |-> <<>>, err |-> ""]
NoResult == [err |-> "pending", value |-> <<>>]

TreeIdle ==
    /\ children = <<>>
    /\ call = "none"
    /\ sig = NoSig
    /\ method = "none"
    /\ npc = "idle"
    /\ s = <<>>
    /\ status = <<>>
    /\ k = 0
    /\ got = <<>>
    /\ result = NoResult

Callers == 1..MaxCallers
NoValue == [kind |-> "none", n |-> 0]

CountFresh ==
    /\ cache = 0
    /\ nfut = 0
    /\ coro = [f \in Callers |-> "none"]
    /\ cpc = [c \in Callers |-> "start"]
    /\ holds = [c \in Callers |-> NoValue]
    /\ access = [c \in Callers |-> NoValue]
    /\ final = [c \in Callers |-> NoValue]
    /\ queries = 0

CountIdle == rowCount = 0 /\ CountFresh

---------------------------------------------------------------------------
(* check_identifier                                                        *)

InitIdent ==
    /\ ident \in Idents
    /\ identOut = [done |-> FALSE, raised |-> FALSE, value |-> <<>>]
    /\ WhereIdle /\ PksIdle /\ TreeIdle /\ CountIdle

CheckIdentifier ==
    /\ ~identOut.done
    /\ identOut' = [done |-> TRUE] @@ check_identifier(ident)
    /\ UNCHANGED <<ident, whereVars, pksVars, treeVars, countVars>>

NextIdent == CheckIdentifier

SpecIdent == InitIdent /\ [][NextIdent]_vars

---------------------------------------------------------------------------
(* where_clause                                                            *)

InitWhere ==
    /\ where \in Docs
    /\ args0 \in Seeds
    /\ out = [err |-> "pending", frag |-> <<>>, args |-> args0]
    /\ IdentIdle /\ PksIdle /\ TreeIdle /\ CountIdle

Compile ==
    /\ out.err = "pending"
    /\ out' = where_clause(where, args0)
    /\ UNCHANGED <<identVars, where, args0, pksVars, treeVars, countVars>>

NextWhere == Compile

SpecWhere == InitWhere /\ [][NextWhere]_vars

---------------------------------------------------------------------------
(* Table(...) and get_pks(...) on the same metadata                        *)

InitPks ==
    /\ meta \in Metas
    /\ table = NoTable
    /\ pksOut = [done |-> FALSE, pks |-> NoneV]
    /\ IdentIdle /\ WhereIdle /\ TreeIdle /\ CountIdle

ConstructTable ==
    /\ ~table.done
    /\ table' = [done |-> TRUE]
                @@ TableInit(meta.attributes, meta.constraints, meta.indexes)
    /\ UNCHANGED <<identVars, whereVars, meta, pksOut, treeVars, countVars>>

CallGetPks ==
    /\ ~pksOut.done
    /\ pksOut' = [done |-> TRUE,
                  pks |-> get_pks(meta.indexes, meta.constraints, meta.attributes)]
    /\ UNCHANGED <<identVars, whereVars, meta, table, treeVars, countVars>>

NextPks == ConstructTable \/ CallGetPks

SpecPks == InitPks /\ [][NextPks]_vars

---------------------------------------------------------------------------
(* A composite node (ParentStore): get_count, get_data_hash and            *)
(* get_schema_hash of WithChildren, and get_signature of Store.  Calling   *)
(* an async method only creates its coroutine object; the coroutine runs   *)
(* when it is awaited.  A child's operation, once running, suspends on its *)
(* query and completes later with the child's value.                       *)

InitTree ==
    /\ children \in ChildLists
    /\ call \in {"count", "data", "schema", "signature"}
    /\ sig = IF call = "signature" THEN [NoSig EXCEPT !.pc = "start"] ELSE NoSig
    /\ method = IF call = "signature" THEN "none" ELSE call
    /\ npc = IF call = "signature" THEN "idle" ELSE "call"
    /\ s = <<>>
    /\ status = [j \in 1..Len(children) |-> "none"]
    /\ k = 0
    /\ got = <<>>
    /\ result = NoResult
    /\ IdentIdle /\ WhereIdle /\ PksIdle /\ CountIdle

\* "await self.get_children()" returns
GetChildren ==
    /\ npc = "call"
    /\ npc' = IF children = <<>> THEN "fold" ELSE "collect"
    /\ UNCHANGED <<children, call, sig, method, s, status, k, got, result>>
    /\ UNCHANGED <<identVars, whereVars, pksVars, countVars>>

\* one pass of the for loop: c.get_xxx() makes a coroutine object, s.append
CreateChild ==
    /\ npc = "collect"
    /\ LET j == Len(s) + 1
       IN /\ s' = Append(s, j)
          /\ status' = [status EXCEPT ![j] = "created"]
          /\ npc' = IF j = Len(children) THEN "await" ELSE "collect"
          /\ k' = IF j = Len(children) THEN 1 ELSE k
    /\ UNCHANGED <<children, call, sig, method, got, result>>
    /\ UNCHANGED <<identVars, whereVars, pksVars, countVars>>

\* the comprehension reaches "await" of the k-th entry: its coroutine starts
AwaitChild ==
    /\ npc = "await"
    /\ status[s[k]] = "created"
    /\ status' = [status EXCEPT ![s[k]] = "running"]
    /\ UNCHANGED <<children, call, sig, method, npc, s, k, got, result>>
    /\ UNCHANGED <<identVars, whereVars, pksVars, countVars>>

\* the awaited child completes; the comprehension appends its element
ChildCompletes ==
    /\ npc = "await"
    /\ status[s[k]] = "running"
    /\ status' = [status EXCEPT ![s[k]] = "done"]
    /\ LET child == children[s[k]]
           value == ChildValue(child, method)
       IN got' = Append(got, IF method = "count" THEN value
                             ELSE FoldPiece(value, child.name).text)
    /\ k' = k + 1
    /\ npc' = IF k = Len(s) THEN "fold" ELSE "await"
    /\ UNCHANGED <<children, call, sig, method, s, result>>
    /\ UNCHANGED <<identVars, whereVars, pksVars, countVars>>

\* sum(...) for get_count, md5(",".join(...)) for the two hashes
Fold ==
    /\ npc = "fold"
    /\ result' = IF method = "count" THEN [err |-> "", value |-> Sum(got)]
                 ELSE LET h == md5(PyText(Join(<<",">>, got)))
                      IN [err |-> h.err, value |-> h.digest]
    /\ npc' = "done"
    /\ UNCHANGED <<children, call, sig, method, s, status, k, got>>
    /\ UNCHANGED <<identVars, whereVars, pksVars, countVars>>

\* get_signature: three coroutine objects are made, none is running yet
SigCreate ==
    /\ sig.pc = "start"
    /\ sig' = [sig EXCEPT !.pc = "await", !.k = 1,
                          !.parts = [p \in {"data", "schema", "count"} |-> "created"]]
    /\ UNCHANGED <<children, call, method, npc, s, status, k, got, result>>
    /\ UNCHANGED <<identVars, whereVars, pksVars, countVars>>

\* get_signature awaits its next coroutine, which starts the node's method
SigAwaitPart ==
    /\ sig.pc = "await"
    /\ method = "none"
    /\ LET p == SignatureParts[sig.k]
       IN /\ sig.parts[p] = "created"
          /\ sig' = [sig EXCEPT !.parts[p] = "running"]
          /\ method' = p
    /\ npc' = "call"
    /\ s' = <<>>
    /\ status' = [j \in 1..Len(children) |-> "none"]
    /\ k' = 0
    /\ got' = <<>>
    /\ result' = NoResult
    /\ UNCHANGED <<children, call>>
    /\ UNCHANGED <<identVars, whereVars, pksVars, countVars>>

\* the awaited method has returned or raised; an exception ends get_signature,
\* the last value gives f"{data_hash}-{schema_hash}-{count}"
SigPartDone ==
    /\ sig.pc = "await"
    /\ method # "none"
    /\ npc = "done"
    /\ sig' = IF result.err # ""
              THEN [sig EXCEPT !.pc = "done", !.parts[method] = "done",
                               !.err = result.err]
              ELSE [sig EXCEPT !.pc = IF sig.k = Len(SignatureParts) THEN "done"
                                      ELSE "await",
                               !.k = sig.k + 1,
                               !.parts[method] = "done",
                               !.values = Append(sig.values, result.value)]
    /\ method' = "none"
    /\ npc' = "idle"
    /\ UNCHANGED <<children, call, s, status, k, got, result>>
    /\ UNCHANGED <<identVars, whereVars, pksVars, countVars>>

NextTree ==
    \/ GetChildren \/ CreateChild \/ AwaitChild \/ ChildCompletes \/ Fold
    \/ SigCreate \/ SigAwaitPart \/ SigPartDone

SpecTree == InitTree /\ [][NextTree]_vars

---------------------------------------------------------------------------
(* Table.count: "@cached_property async def count(self): return           *)
(* self.get_count()".  For a coroutine function cached_property gives, on  *)
(* each lookup that finds no cache entry, a new wrapper coroutine; the     *)
(* wrapper, when awaited, schedules count() as a future, stores the future *)
(* in the instance's __dict__ and gives the future's result.  count()      *)
(* returns the coroutine object self.get_count() makes, without awaiting   *)
(* it.  A coroutine object can be awaited once.                            *)

InitCount ==
    /\ rowCount \in 0..MaxRows
    /\ CountFresh
    /\ IdentIdle /\ WhereIdle /\ PksIdle /\ TreeIdle

\* a caller evaluates table.count: the cached future, or a new wrapper
Lookup(c) ==
    /\ cpc[c] = "start"
    /\ holds' = [holds EXCEPT ![c] = IF cache = 0 THEN [kind |-> "wrapper", n |-> 0]
                                     ELSE [kind |-> "future", n |-> cache]]
    /\ cpc' = [cpc EXCEPT ![c] = "holding"]
    /\ UNCHANGED <<rowCount, cache, nfut, coro, access, final, queries>>
    /\ UNCHANGED <<identVars, whereVars, pksVars, treeVars>>

\* the caller awaits what it holds.  A wrapper runs count() as a new future
\* and caches it; either way the caller gets the future's result, the
\* get_count coroutine object.
AwaitAccess(c) ==
    /\ cpc[c] = "holding"
    /\ IF holds[c].kind = "wrapper"
       THEN /\ nfut' = nfut + 1
            /\ cache' = nfut + 1
            /\ coro' = [coro EXCEPT ![nfut + 1] = "created"]
            /\ access' = [access EXCEPT ![c] = [kind |-> "coroutine", n |-> nfut + 1]]
       ELSE /\ access' = [access EXCEPT ![c] = [kind |-> "coroutine", n |-> holds[c].n]]
            /\ UNCHANGED <<nfut, cache, coro>>
    /\ cpc' = [cpc EXCEPT ![c] = "accessed"]
    /\ UNCHANGED <<rowCount, holds, final, queries>>
    /\ UNCHANGED <<identVars, whereVars, pksVars, treeVars>>

\* the caller awaits the coroutine object it got: get_count runs its query
\* the first time, and an awaited coroutine raises RuntimeError
AwaitCoroutine(c) ==
    /\ cpc[c] = "accessed"
    /\ IF coro[access[c].n] = "created"
       THEN /\ coro' = [coro EXCEPT ![access[c].n] = "awaited"]
            /\ queries' = queries + 1
            /\ final' = [final EXCEPT ![c] = [kind |-> "int", n |-> rowCount]]
       ELSE /\ final' = [final EXCEPT ![c] = [kind |-> "RuntimeError", n |-> 0]]
            /\ UNCHANGED <<coro, queries>>
    /\ cpc' = [cpc EXCEPT ![c] = "done"]
    /\ UNCHANGED <<rowCount, cache, nfut, holds, access>>
    /\ UNCHANGED <<identVars, whereVars, pksVars, treeVars>>

NextCount == \E c \in Callers : Lookup(c) \/ AwaitAccess(c) \/ AwaitCoroutine(c)

SpecCount == InitCount /\ [][NextCount]_vars

---------------------------------------------------------------------------
(* Properties of check_identifier and where_clause                         *)

\* the identifier grammar ^[A-Za-z][-_A-Za-z0-9$]*$ read over the whole string
Grammar(cs) ==
    /\ Len(cs) >= 1
    /\ cs[1] \in Letters
    /\ \A j \in 2..Len(cs) : cs[j] \in IdentBody

WhitespaceChars == {" ", "\n", "\t"}
MetaChars == {"'", "\"", ";", ".", "(", ")"}

\* C7: check_identifier returns every string of the grammar unchanged, and
\* fails for every string that holds a whitespace character (a trailing
\* newline included), starts with a digit or holds a SQL metacharacter.
C7_CheckIdentifier ==
    identOut.done =>
        /\ (Grammar(ident) => (~identOut.raised /\ identOut.value = ident))
        /\ (( \/ \E j \in 1..Len(ident) : ident[j] \in WhitespaceChars \cup MetaChars
              \/ (Len(ident) >= 1 /\ ident[1] \in Digits) )
            => identOut.raised)

\* the characters of the keys the documents use
Spell(key) ==
    CASE key = "a" -> <<"a">>
      [] key = "b" -> <<"b">>
      [] key = "c" -> <<"c">>
      [] key = "a b" -> <<"a", " ", "b">>
      [] key = "b';" -> <<"b", "'", ";">>

Combinators == {".and", ".or", ".not"}
Returned == out.err = ""
Compiled == out.err # "pending"

\* C1: for a document with a field key outside the identifier grammar,
\* where_clause fails; it never returns a fragment holding that field name.
C1_InvalidFieldRejected ==
    Compiled =>
        \A j \in 1..Len(where.kvs) :
            LET key == where.kvs[j][1]
            IN (key \notin Combinators /\ ~Grammar(Spell(key)))
               => ~(Returned /\ \E p \in 1..Len(out.frag) :
                                    out.frag[p].t = "field" /\ out.frag[p].x = key)

\* C3: a document with a combinator key and any other key at the same level
\* is rejected; where_clause returns no fragment for it.
C3_AmbiguousRejected ==
    Compiled =>
        (( /\ \E j \in 1..Len(where.kvs) : where.kvs[j][1] \in Combinators
           /\ Len(where.kvs) >= 2 )
         => ~Returned)

\* every \, % and _ preceded by one backslash, in one pass over the value
Escaped(cs) ==
    Concat([j \in 1..Len(cs) |->
              IF cs[j] \in {"\\", "%", "_"} THEN <<"\\", cs[j]>> ELSE <<cs[j]>>])

PatternOps ==
    {"like", "ilike", "~", "~~", "starts.with", "istarts.with", "iends.with",
     "contains", "icontains"}

\* the wildcards of the translation rules: value%, %value, %value%
WildPrefix(op) == IF op \in {"iends.with", "contains", "icontains"} THEN <<"%">> ELSE <<>>
WildSuffix(op) ==
    IF op \in {"starts.with", "istarts.with", "contains", "icontains"} THEN <<"%">> ELSE <<>>

\* the parameter one operator is expected to bind for a single value
ExpectedParam(op, v) ==
    IF v.k = "str" /\ op \in PatternOps
    THEN PyStr(WildPrefix(op) \o Escaped(v.s) \o WildSuffix(op))
    ELSE v

\* the values one operator is expected to bind, in order
ExpectedParams(op, v) ==
    IF op = "is.null" THEN <<>>
    ELSE IF v.k = "list" THEN v.items
    ELSE <<ExpectedParam(op, v)>>

FieldLeaves(f, ov) ==
    IF ov.k = "dict"
    THEN [j \in 1..Len(ov.kvs) |->
            [field |-> f, vals |-> ExpectedParams(ov.kvs[j][1], ov.kvs[j][2])]]
    ELSE <<[field |-> f, vals |-> ExpectedParams("equals", ov)]>>

\* the clauses of a document in document order, each with the values it binds
RECURSIVE Leaves(_)
Leaves(doc) ==
    IF Truthy(Get(doc, ".and"))
    THEN Concat([j \in 1..Len(Get(doc, ".and").items) |-> Leaves(Get(doc, ".and").items[j])])
    ELSE IF Truthy(Get(doc, ".or"))
    THEN Concat([j \in 1..Len(Get(doc, ".or").items) |-> Leaves(Get(doc, ".or").items[j])])
    ELSE IF Truthy(Get(doc, ".not"))
    THEN Leaves(Get(doc, ".not"))
    ELSE Concat([j \in 1..Len(doc.kvs) |-> FieldLeaves(doc.kvs[j][1], doc.kvs[j][2])])

\* positions of the tokens of one kind, left to right
Positions(frag, kind) ==
    LET RECURSIVE From(_)
        From(p) == IF p > Len(frag) THEN <<>>
                   ELSE (IF frag[p].t = kind THEN <<p>> ELSE <<>>) \o From(p + 1)
    IN From(1)

\* the placeholder numbers of the c-th clause: those after the c-th field
\* token and before the next one
ClausePlaceholders(frag, c) ==
    LET fp == Positions(frag, "field")
        lo == fp[c]
        hi == IF c < Len(fp) THEN fp[c + 1] ELSE Len(frag) + 1
        ps == SelectSeq(Positions(frag, "ph"), LAMBDA p : lo < p /\ p < hi)
    IN [j \in 1..Len(ps) |-> frag[ps[j]].n]

\* C2: when where_clause returns, the pre-seeded entries of args are
\* unchanged and args has only grown at its end; the placeholders of the
\* fragment are $n+1 .. $len(args), once each, increasing from left to right;
\* and each clause's placeholders number the entries of args that hold the
\* values that clause binds (none for is.null).
C2_PlaceholdersConsistent ==
    Returned =>
        LET n == Len(args0)
            phs == Positions(out.frag, "ph")
            leaves == Leaves(where)
            fields == Positions(out.frag, "field")
        IN /\ Len(out.args) >= n
           /\ SubSeq(out.args, 1, n) = args0
           /\ [j \in 1..Len(phs) |-> out.frag[phs[j]].n]
                = [j \in 1..(Len(out.args) - n) |-> n + j]
           /\ Len(fields) = Len(leaves)
           /\ \A c \in 1..Len(leaves) :
                LET nums == ClausePlaceholders(out.frag, c)
                IN /\ out.frag[fields[c]].x = leaves[c].field
                   /\ Len(nums) = Len(leaves[c].vals)
                   /\ \A j \in 1..Len(nums) :
                        /\ nums[j] \in 1..Len(out.args)
                        /\ out.args[nums[j]] = leaves[c].vals[j]

\* a document nested under .not and .or has compiled onto pre-seeded args,
\* binding a list, an is.null and single values
C2_Witness ==
    /\ Returned
    /\ Len(args0) >= 1
    /\ Truthy(Get(where, ".not"))
    /\ Truthy(Get(Get(where, ".not"), ".or"))
    /\ Len(out.args) >= Len(args0) + 4
    /\ \E p \in 1..Len(out.frag) : out.frag[p] = Txt("IN")
    /\ \E p \in 1..Len(out.frag) : out.frag[p] = Txt("IS")

\* the document is {field: {op: "<string>"}} or {field: "<string>"}
IsStrDoc ==
    /\ where.k = "dict"
    /\ Len(where.kvs) = 1
    /\ LET ov == where.kvs[1][2]
       IN \/ ov.k = "str"
          \/ (ov.k = "dict" /\ Len(ov.kvs) = 1 /\ ov.kvs[1][2].k = "str")

StrDocOp == IF where.kvs[1][2].k = "str" THEN "equals" ELSE where.kvs[1][2].kvs[1][1]
StrDocValue == IF where.kvs[1][2].k = "str" THEN where.kvs[1][2] ELSE where.kvs[1][2].kvs[1][2]

\* C8: for a pattern-matching operator and a string value the parameter
\* appended is the value with each \, % and _ escaped once, wrapped in the
\* wildcards of the operator's translation rule, which are not escaped; for
\* any other operator that binds a value the string is appended as it is.
C8_LikeEscaping ==
    (Compiled /\ IsStrDoc /\ StrDocOp \in DOMAIN OPERATORS /\ StrDocOp # "is.null") =>
        /\ Returned
        /\ out.args =
             Append(args0,
                    IF StrDocOp \in PatternOps
                    THEN PyStr(WildPrefix(StrDocOp) \o Escaped(StrDocValue.s)
                               \o WildSuffix(StrDocOp))
                    ELSE StrDocValue)

\* a value holding a backslash and a % went through an operator that adds
\* wildcards on both sides
C8_Witness ==
    /\ Returned /\ IsStrDoc
    /\ StrDocOp = "icontains"
    /\ StrDocValue.s = <<"\\", "%">>
    /\ out.args = Append(args0, PyStr(<<"%", "\\", "\\", "\\", "%", "%">>))

---------------------------------------------------------------------------
(* Properties of primary-key resolution                                    *)

\* the resolution order: a primary index's columns, else a type-"p"
\* constraint's columns, else nothing declared
DeclaredKey(indexes, constraints) ==
    IF SelectSeq(indexes, IsPrimaryIndex) # <<>>
    THEN Some(SelectSeq(indexes, IsPrimaryIndex)[1].columns)
    ELSE IF SelectSeq(constraints, IsPrimaryConstraint) # <<>>
    THEN Some(SelectSeq(constraints, IsPrimaryConstraint)[1].columns)
    ELSE NoneV

\* C6: get_pks and the pks of a constructed Table are the columns of a
\* primary index if there is one, else the columns of a type-"p" constraint
\* if there is one, else the full column list, which is never empty or
\* undefined.
C6_PrimaryKeyResolution ==
    /\ pksOut.done =>
          (LET declared == DeclaredKey(meta.indexes, meta.constraints)
           IN pksOut.pks = IF declared.some THEN declared ELSE Some(meta.attributes))
    /\ table.done =>
          LET declared == DeclaredKey(table.indexes, table.constraints)
          IN IF declared.some THEN table.pks = declared
             ELSE /\ table.pks.some
                  /\ Len(table.pks.v) = Len(table.attributes)
                  /\ \A j \in 1..Len(table.attributes) :
                        \E h \in 1..Len(table.pks.v) :
                            table.pks.v[h] \in {table.attributes[j],
                                                table.attributes[j].name}

---------------------------------------------------------------------------
(* Properties of the composite node                                        *)

HashMethods == {"data", "schema"}
NodeDone == npc = "done" /\ method \in HashMethods /\ Len(children) >= 1

\* a child list with the data hash of child j replaced
WithData(kids, j, h) == [kids EXCEPT ![j].data = h]

\* C4: the composite's data hash depends on its children's data hashes and
\* its schema hash does not: changing the data hash one leaf returns changes
\* the digest get_data_hash returns and leaves the digest get_schema_hash
\* returns as it is.
C4_DataHashFollowsChildren ==
    NodeDone =>
        /\ result.err = ""
        /\ \A j \in 1..Len(children) :
              \A h \in {"d1", "d2"} \ {children[j].data} :
                 LET other == WithChildrenFold(HashPairs(WithData(children, j, h), method))
                 IN /\ other.err = ""
                    /\ (method = "data" => other.digest # result.value)
                    /\ (method = "schema" => other.digest = result.value)

Orders(n) == {p \in [1..n -> 1..n] : \A x, y \in 1..n : x # y => p[x] # p[y]}

\* C5: get_data_hash and get_schema_hash return the same digest whatever the
\* order in which get_children gives the children, because the (hash, name)
\* pairs are combined in child-name order.
C5_FoldOrderIndependent ==
    NodeDone =>
        /\ result.err = ""
        /\ \A p \in Orders(Len(children)) :
              LET other == WithChildrenFold(
                               HashPairs([j \in 1..Len(children) |-> children[p[j]]], method))
              IN other.err = "" /\ other.digest = result.value
        /\ \A j \in 1..(Len(s) - 1) :
              Rank(children[s[j]].name) < Rank(children[s[j + 1]].name)

Started(st) == st \in {"running", "done"}

\* C10: when a composite's method, or get_signature, waits for one of the
\* operations it fanned out to, every one of them has been started.
C10_StartedTogether ==
    /\ (npc = "await" => \A j \in 1..Len(children) : Started(status[j]))
    /\ ((sig.pc = "await" /\ method # "none") =>
          \A p \in {"data", "schema", "count"} : Started(sig.parts[p]))

---------------------------------------------------------------------------
(* Properties of Table.count                                               *)

\* C9: over any accesses to count on one Table the row-count query runs at
\* most once and not before the first access, and every access yields the
\* integer row count that execution gave.
C9_CountMemoized ==
    /\ queries <= 1
    /\ (queries >= 1 => \E c \in Callers : cpc[c] # "start")
    /\ \A c \in Callers :
          cpc[c] \in {"accessed", "done"} =>
              access[c] = [kind |-> "int", n |-> rowCount]

===========================================================================
